---- MODULE Spec2Model ----
(***************************************************************************)
(* Model of the multi-currency batched collection engine:                  *)
(*   utils/crypto_api_client.py  CoinMarketCapClient (transport, batching, *)
(*                               merge of per-currency responses)          *)
(*   utils/data_manager.py       DataManager (write-then-rename sink)      *)
(***************************************************************************)
EXTENDS Integers, Sequences, FiniteSets, TLC

(***************************************************************************)
(* Bounds of the model.                                                    *)
(***************************************************************************)
\* Currency lists hold 0..MaxCurrencies distinct currency codes.
MaxCurrencies == 2
\* Long symbol lists hold up to MaxExtra symbols more than full batches.
MaxExtra == 1

\* The longest record list that save_ndjson / save_json is given.
MaxRecords == 2

\* The longest string value in a record of a round trip.
MaxStrLen == 2

(***************************************************************************)
(* Program constants.                                                      *)
(***************************************************************************)
\* batch_size = 100
batch_size == 100
\* Retry(total=5, ...)
RetryTotal == 5

\* status_forcelist=[429, 500, 502, 503, 504]
status_forcelist == {"429", "500", "502", "503", "504"}

\* What one HTTP attempt can end in: a status code, or no response at all
\* (connection error, timeout).
HttpStatuses == {"200", "401", "404", "429", "503"}
NoResponse == {"timeout"}

\* Currency codes, in the order the lists below take them.
CurrencyOrder == <<"USD", "BRL", "EUR", "JPY">>

(***************************************************************************)
(* Inputs.                                                                 *)
(***************************************************************************)
Range(s) == {s[k] : k \in 1..Len(s)}

\* The symbols are numbered; a symbol list is <<1, ..., n>>.  The short
\* lists are made of the symbols of Tracked, for which a response holds an
\* entry chosen freely per symbol and the log records every entry.
Tracked == {1, 2}

SymbolList(n) == [k \in 1..n |-> k]

\* Lengths of the long lists: one symbol, one full batch, and up to MaxExtra
\* symbols more than one and than two full batches.
LongCounts ==
    {1, batch_size} \cup {k * batch_size + d : k \in 1..2, d \in 1..MaxExtra}

\* convert_currencies = convert_currencies or ['USD']
DefaultCurrencies(arg) == IF arg = <<>> THEN <<"USD">> ELSE arg

(***************************************************************************)
(* Responses of the API.                                                   *)
(***************************************************************************)
\* One entry of the "data" object of a quotes response, for one symbol:
\*   absent    the symbol is no key of the object
\*   ok        a dict whose quote has the requested currency
\*   noquote   a dict whose quote lacks the requested currency
\*   bad       the value is no dict (null, a list): data.get raises
\*   badquote  a dict whose quote[currency] is no dict: curr_data.get raises
\* The values a dict carries (name, rank, ..., price, ...) are written as
\* the currency of the response that returned them.
Outcomes == {"absent", "ok", "noquote", "bad", "badquote"}

\* The status envelope of a 200 response: error_code present or not.
ErrorCodes ==
    {[present |-> TRUE, code |-> 0], [present |-> TRUE, code |-> 1002],
     [present |-> FALSE, code |-> 0]}

\* A 200 response: a body that is JSON or not, its envelope, and its data.
\* A batch of symbols of Tracked gets an entry chosen freely for each symbol
\* (first); a longer batch gets one entry for all its symbols (rest).  A
\* response that _make_request refuses carries no data.
Responses(batch) ==
    [json : {TRUE}, error_code : {[present |-> TRUE, code |-> 0]},
     first : IF Range(batch) \subseteq Tracked
             THEN [Range(batch) -> Outcomes]
             ELSE {[s \in {} |-> "absent"]},
     rest : IF Range(batch) \subseteq Tracked
            THEN {"absent"}
            ELSE {"absent", "ok", "bad"}]
    \cup [json : BOOLEAN, error_code : ErrorCodes,
          first : {[s \in {} |-> "absent"]}, rest : {"absent"}]

Entry(resp, symbol) ==
    IF symbol \in DOMAIN resp.first THEN resp.first[symbol] ELSE resp.rest


(***************************************************************************)
(* State.                                                                  *)
(***************************************************************************)
VARIABLES
    symbols,            \* collect_crypto_data: the symbols argument
    arg_currencies,     \* collect_crypto_data: the convert_currencies argument
    convert_currencies, \* the list after "or ['USD']"
    ci,                 \* position of the outer loop (1-based index of currency)
    i,                  \* the inner loop's i (offset of the batch)
    pc,                 \* "loop", "http" (inside session.get), "done"
    crypto_data_map,    \* dict symbol -> record, as the list of its values in
                        \* insertion order
    failed_symbols,     \* set of symbols
    request_count,      \* self.request_count
    retry_total,        \* Retry.total left for the request in flight
    attempts,           \* HTTP attempts sent for the request in flight
    all429,             \* every answer to them so far was a 429
    count0,             \* request_count when the request in flight began
    results,            \* the returned list
    sent,               \* log: the (currency, batch) requests made so far
    last,               \* log: how the most recent batch ended: "none",
                        \*      "merged", or failed by "transport", "api", "fold"
    answered,           \* log: the latest answer to the request in flight or
                        \*      just ended: "none", a status class
                        \*      ("transient", "client_error") or, for a 200,
                        \*      its envelope ("zero", "nonzero", "missing",
                        \*      "nojson")
    seen,               \* log: <<symbol, currency, entry>> for each symbol of
                        \*      Tracked requested in a response that
                        \*      _make_request returned
    slept               \* the milliseconds the loop slept (time.sleep) since
                        \*      the most recent batch's request ended

VARIABLES
    dir,                \* the file system: path -> inode number (0: no such file)
    inode,              \* inode number -> content (a sequence of characters)
    writer,             \* the calls of save_ndjson / save_json: id -> its state
    readback            \* what a reader of the final path decoded

sinkVars == <<dir, inode, writer, readback>>

VARIABLES
    task,               \* extract_crypto_prices: "running", "success" (it
                        \*      returned), "raised" (it raised to the scheduler)
    saved,              \* extract_crypto_prices: save_ndjson wrote the file
    metrics,            \* the value pushed to XCom (<<>> when none was pushed)
    session,            \* client.session: "open", "closed"; "error" when
                        \*      closing it raised
    reclosed            \* log: close() was called after the session was closed

taskVars == <<task, saved, metrics, session, reclosed>>

VARIABLES
    g_pc,               \* get_global_market_data: "off", "loop", "returned",
                        \*      "raised"
    g_ci,               \* position of its loop (1-based index of currency)
    g_currencies,       \* its convert_currencies after "or ['USD']"
    enriched_data,      \* its enriched_data
    g_result,           \* what it returned (<<>> when nothing)
    g_seen,             \* log: the data of the responses returned so far, in
                        \*      order
    g_slept             \* the milliseconds its loop slept since the most
                        \*      recent request ended

globalVars == <<g_pc, g_ci, g_currencies, enriched_data, g_result, g_seen,
                g_slept>>

VARIABLES
    folder,             \* cleanup_old_files: the directory: file -> whether it
                        \*      exists, its st_mtime, whether it matches the
                        \*      pattern, whether unlink fails on it
    cleanup,            \* the call of cleanup_old_files: its position, its
                        \*      arguments, its clock and its local variables
    swept               \* log: the files the call removed, the files that
                        \*      others removed while it ran, the files it
                        \*      examined

cleanVars == <<folder, cleanup, swept>>

VARIABLES
    config,             \* the environment CryptoConfig reads
    ti,                 \* the DAG run: task -> the state of its instance
    tries,              \* task -> the tries it has made
    requested,          \* log: the extraction tasks that sent a request
    run,                \* the state of the DAG run
    summary             \* log_pipeline_metrics: "off", "building", "saving",
                        \*      "returned", "raised"

dagVars == <<config, ti, tries, requested, run, summary>>

restVars == <<cleanVars, dagVars>>

clientVars == <<symbols, arg_currencies, convert_currencies, ci, i, pc,
                crypto_data_map, failed_symbols, request_count, retry_total,
                attempts, all429, count0, results, sent, last, seen,
                answered, slept>>

(***************************************************************************)
(* The record map (a dict: insertion ordered, keyed by symbol).            *)
(***************************************************************************)
Has(map, symbol) == \E k \in 1..Len(map) : map[k].symbol = symbol

Index(map, symbol) == CHOOSE k \in 1..Len(map) : map[k].symbol = symbol

Get(map, symbol) == map[Index(map, symbol)]

\* crypto_data_map[symbol] = {..., 'name': data.get('name'), ..., 'quotes': {}}
NewRecord(symbol, data) ==
    [symbol |-> symbol, name |-> data, quotes |-> <<>>]

HasKey(quotes, currency) == \E k \in 1..Len(quotes) : quotes[k].currency = currency

\* quotes[currency] = slice : a dict assignment (a new key goes last, an
\* existing key keeps its place)
PutQuote(quotes, currency, price) ==
    IF HasKey(quotes, currency)
    THEN [k \in 1..Len(quotes) |->
            IF quotes[k].currency = currency
            THEN [currency |-> currency, price |-> price] ELSE quotes[k]]
    ELSE Append(quotes, [currency |-> currency, price |-> price])

\* crypto_data_map[symbol]['quotes'][currency] = {...}
SetQuote(map, symbol, currency, price) ==
    [map EXCEPT ![Index(map, symbol)].quotes = PutQuote(@, currency, price)]

\* Mutant of EnsureRecord: a new record goes to the front of the map.
EnsureRecord_Front(map, symbol, data) ==
    IF Has(map, symbol) THEN map ELSE <<NewRecord(symbol, data)>> \o map

\* if symbol not in crypto_data_map: crypto_data_map[symbol] = {...}
EnsureRecord(map, symbol, data) ==
    IF Has(map, symbol) THEN map ELSE Append(map, NewRecord(symbol, data))

(***************************************************************************)
(* The body of "for symbol in batch" for one symbol.  st is the state of   *)
(* the fold: the map, the failure set, and whether an exception was raised.*)
(***************************************************************************)
\* Mutant of OnAbsent: the record of a symbol that is absent is dropped.
OnAbsent_Drops(st, symbol) ==
    [st EXCEPT !.failed = @ \cup {symbol},
               !.map = SelectSeq(@, LAMBDA r : r.symbol # symbol)]

\* else: failed_symbols.add(symbol)
OnAbsent(st, symbol) == [st EXCEPT !.failed = @ \cup {symbol}]

\* Mutant of OnNoQuote: a missing quote is handled like a missing symbol.
OnNoQuote_Fails(st, symbol, data) ==
    [st EXCEPT !.map = EnsureRecord(@, symbol, data),
               !.failed = @ \cup {symbol}]

\* if currency in quote_data: is false: the record, nothing else
OnNoQuote(st, symbol, data) ==
    [st EXCEPT !.map = EnsureRecord(@, symbol, data)]

FoldSymbol(st, symbol, currency, resp) ==
    LET entry == Entry(resp, symbol)
        data == currency
    IN
    CASE entry = "absent" ->
            OnAbsent(st, symbol)
      [] entry = "bad" ->
            [st EXCEPT !.raised = TRUE]
      [] entry = "noquote" ->
            OnNoQuote(st, symbol, data)
      [] entry = "badquote" ->
            [st EXCEPT !.map = EnsureRecord(@, symbol, data), !.raised = TRUE]
      [] entry = "ok" ->
            [st EXCEPT !.map = SetQuote(EnsureRecord(@, symbol, data),
                                        symbol, currency, data)]

RECURSIVE FoldFrom(_, _, _, _, _)
FoldFrom(st, batch, k, currency, resp) ==
    IF k > Len(batch) \/ st.raised
    THEN st
    ELSE FoldFrom(FoldSymbol(st, batch[k], currency, resp), batch, k + 1,
                  currency, resp)

\* for symbol in batch: ...
Fold(map, failed, batch, currency, resp) ==
    FoldFrom([map |-> map, failed |-> failed, raised |-> FALSE], batch, 1,
             currency, resp)


(***************************************************************************)
(* DataManager.save_ndjson and save_json: the file system, the text that   *)
(* json.dump writes, and the steps of a call.                              *)
(***************************************************************************)
Dirs == {"raw", "processed"}

Filenames == {[stem |-> "crypto_prices_T", suffix |-> ".json"],
              [stem |-> "crypto_prices_T", suffix |-> ".ndjson"]}

\* filename = f"pipeline_execution_{timestamp.strftime('%Y%m%d_%H%M%S')}.json"
SummaryFilename == [stem |-> "pipeline_execution_T", suffix |-> ".json"]

Suffixes == {f.suffix : f \in Filenames} \cup {".tmp"}

AllPaths ==
    [dir : Dirs, stem : {f.stem : f \in Filenames \cup {SummaryFilename}},
     suffix : Suffixes]

\* file_path = output_dir / filename
FilePath(output_dir, filename) ==
    [dir |-> output_dir, stem |-> filename.stem, suffix |-> filename.suffix]

\* temp_path = file_path.with_suffix('.tmp')
TempPath(file_path) == [file_path EXCEPT !.suffix = ".tmp"]

\* The characters of a string value: a plain one, the double quote, the
\* backslash, the line feed and U+2028 (not ASCII, a line separator to some
\* readers).
Chars == {"n", "Q", "BS", "LF", "LS"}

Strings(n) == UNION {[1..k -> Chars] : k \in 0..n}

\* Mutant of EscapeChar: the line feed is written as it is.
EscapeChar_Raw(c) ==
    CASE c = "Q" -> <<"BS", "Q">>
      [] c = "BS" -> <<"BS", "BS">>
      [] OTHER -> <<c>>

\* json's string encoder with ensure_ascii=False: the quote, the backslash
\* and the control characters are escaped, everything else is written raw
EscapeChar(c) ==
    CASE c = "Q" -> <<"BS", "Q">>
      [] c = "BS" -> <<"BS", "BS">>
      [] c = "LF" -> <<"BS", "n">>
      [] OTHER -> <<c>>

RECURSIVE Escape(_)
Escape(s) == IF s = <<>> THEN <<>> ELSE EscapeChar(Head(s)) \o Escape(Tail(s))

\* json.dump(item, f, ensure_ascii=False)
Dumps(item) == <<"Q">> \o Escape(item) \o <<"Q">>

\* json.dump(item, f, ...); f.write('\n')
Line(item) == Dumps(item) \o <<"LF">>

RECURSIVE Joined(_)
Joined(items) ==
    IF items = <<>> THEN <<>>
    ELSE <<"LF">> \o Dumps(Head(items))
         \o (IF Len(items) > 1 THEN <<",">> ELSE <<"LF">>) \o Joined(Tail(items))

\* json.dump(data, f, indent=2, ensure_ascii=False)
Document(data) == <<"[">> \o Joined(data) \o <<"]">>

\* What a call writes, in the pieces it writes it in.
Chunks(mode, data) ==
    IF mode = "ndjson" THEN [k \in 1..Len(data) |-> Line(data[k])]
    ELSE <<Document(data)>>

RECURSIVE Flat(_)
Flat(chunks) == IF chunks = <<>> THEN <<>> ELSE Head(chunks) \o Flat(Tail(chunks))

\* The complete content of a call's file.
Serialized(mode, data) == Flat(Chunks(mode, data))

\* The inverse of the string encoder, as a JSON decoder computes it: a raw
\* quote or a raw line feed inside the string is an error, and so is a
\* backslash that does not begin an escape.
RECURSIVE Unescape(_)
Unescape(t) ==
    IF t = <<>> THEN [ok |-> TRUE, value |-> <<>>]
    ELSE IF Head(t) = "BS"
    THEN IF Len(t) >= 2 /\ t[2] \in {"n", "Q", "BS"}
         THEN LET r == Unescape(SubSeq(t, 3, Len(t)))
                  c == IF t[2] = "n" THEN "LF" ELSE t[2]
              IN [ok |-> r.ok, value |-> <<c>> \o r.value]
         ELSE [ok |-> FALSE, value |-> <<>>]
    ELSE IF Head(t) \in {"Q", "LF"}
    THEN [ok |-> FALSE, value |-> <<>>]
    ELSE LET r == Unescape(Tail(t))
         IN [ok |-> r.ok, value |-> <<Head(t)>> \o r.value]

\* json.loads(line)
Loads(line) ==
    IF Len(line) >= 2 /\ line[1] = "Q" /\ line[Len(line)] = "Q"
    THEN Unescape(SubSeq(line, 2, Len(line) - 1))
    ELSE [ok |-> FALSE, value |-> <<>>]

\* for line in f: the text is cut after every line feed; what follows the
\* last line feed, if anything, is a line too
RECURSIVE SplitLines(_, _)
SplitLines(text, line) ==
    IF text = <<>> THEN (IF line = <<>> THEN <<>> ELSE <<line>>)
    ELSE IF Head(text) = "LF" THEN <<line>> \o SplitLines(Tail(text), <<>>)
    ELSE SplitLines(Tail(text), Append(line, Head(text)))

WriterIds == {1, 2}

NoFile == [exists |-> FALSE, text |-> <<>>]

\* What a reader of a path finds.
FileAt(d, ino, path) ==
    IF d[path] = 0 THEN NoFile ELSE [exists |-> TRUE, text |-> ino[d[path]]]

WriterOff ==
    [pc |-> "off", mode |-> "ndjson",
     path |-> FilePath("raw", [stem |-> "crypto_prices_T", suffix |-> ".json"]),
     data |-> <<>>, k |-> 0, fd |-> 0, before |-> NoFile, renamed |-> FALSE,
     failedAt |-> "none"]

NoReadback == [done |-> FALSE, ok |-> FALSE, values |-> <<>>, lines |-> 0,
               terminated |-> FALSE]

\* No file, no call.
SinkOff ==
    /\ dir = [p \in AllPaths |-> 0]
    /\ inode = <<>>
    /\ writer = [id \in WriterIds |-> WriterOff]
    /\ readback = NoReadback

\* Mutant of Cleanup: the handler leaves the temporary file.
Cleanup_Leaves(d, temp_path) == d

\* if temp_path.exists(): temp_path.unlink()
Cleanup(d, temp_path) ==
    IF d[temp_path] # 0 THEN [d EXCEPT ![temp_path] = 0] ELSE d

\* except Exception as e: (clean up); raise.  The file, if it was opened, has
\* been closed by the with statement.
Raised(id, step, ino) ==
    /\ dir' = Cleanup(dir, TempPath(writer[id].path))
    /\ inode' = ino
    /\ writer' = [writer EXCEPT ![id].pc = "raised", ![id].fd = 0,
                                ![id].failedAt = step]
    /\ UNCHANGED <<readback, clientVars, taskVars, globalVars, restVars>>

\* open(temp_path, 'w'): the file is created, or emptied if it exists
Open(id) ==
    LET temp_path == TempPath(writer[id].path) IN
    /\ writer[id].pc = "call"
    /\ IF dir[temp_path] = 0
       THEN /\ inode' = Append(inode, <<>>)
            /\ dir' = [dir EXCEPT ![temp_path] = Len(inode) + 1]
            /\ writer' = [writer EXCEPT ![id].pc = "write",
                                        ![id].fd = Len(inode) + 1]
       ELSE /\ inode' = [inode EXCEPT ![dir[temp_path]] = <<>>]
            /\ dir' = dir
            /\ writer' = [writer EXCEPT ![id].pc = "write",
                                        ![id].fd = dir[temp_path]]
    /\ UNCHANGED <<readback, clientVars, taskVars, globalVars, restVars>>

\* open raises (OSError)
OpenFails(id) ==
    /\ writer[id].pc = "call"
    /\ Raised(id, "open", inode)

\* The text of a file after a piece was written at an offset: what lies
\* before the offset stays (a gap left by a truncation reads as NUL), the
\* piece replaces what it covers, what lies behind it stays.
WriteAt(text, offset, piece) ==
    [k \in 1..(IF Len(text) > offset + Len(piece) THEN Len(text)
               ELSE offset + Len(piece)) |->
        IF k > offset /\ k <= offset + Len(piece) THEN piece[k - offset]
        ELSE IF k <= Len(text) THEN text[k] ELSE "NUL"]

\* The offset of a call's file object: the length of the pieces it wrote.
Offset(w) == Len(Flat(SubSeq(Chunks(w.mode, w.data), 1, w.k)))

\* One piece is written in full: a record and its line feed (save_ndjson),
\* the document (save_json).
WriteChunk(id) ==
    LET w == writer[id]
        chunks == Chunks(w.mode, w.data)
    IN
    /\ w.pc = "write"
    /\ w.k < Len(chunks)
    /\ inode' = [inode EXCEPT ![w.fd] = WriteAt(@, Offset(w), chunks[w.k + 1])]
    /\ writer' = [writer EXCEPT ![id].k = w.k + 1]
    /\ UNCHANGED <<dir, readback, clientVars, taskVars, globalVars, restVars>>

\* json.dump or f.write raises after a part of the piece was written
\* (a value that cannot be serialised, the disk is full)
WriteFails(id) ==
    LET w == writer[id]
        chunks == Chunks(w.mode, w.data)
    IN
    /\ w.pc = "write"
    /\ w.k < Len(chunks)
    /\ \E n \in 0..(Len(chunks[w.k + 1]) - 1) :
        Raised(id, "write",
               [inode EXCEPT ![w.fd] =
                   WriteAt(@, Offset(w), SubSeq(chunks[w.k + 1], 1, n))])

\* Mutant of Written: the rename does not wait for the end of the writes.
Written_Early(w) == w.k <= Len(Chunks(w.mode, w.data))

\* The with block has ended: every piece was written.
Written(w) == w.k = Len(Chunks(w.mode, w.data))

\* The with statement closes the file; temp_path.replace(file_path); return
Rename(id) ==
    LET w == writer[id]
        temp_path == TempPath(w.path)
    IN
    /\ w.pc = "write"
    /\ Written(w)
    /\ dir[temp_path] # 0
    /\ dir' = IF temp_path = w.path THEN dir
              ELSE [dir EXCEPT ![w.path] = dir[temp_path], ![temp_path] = 0]
    /\ writer' = [writer EXCEPT ![id].pc = "returned", ![id].fd = 0,
                                ![id].renamed = TRUE]
    /\ UNCHANGED <<inode, readback, clientVars, taskVars, globalVars, restVars>>

\* temp_path.replace(file_path) raises FileNotFoundError: the temporary
\* path is gone (another call renamed or removed it)
RenameMissing(id) ==
    LET w == writer[id] IN
    /\ w.pc = "write"
    /\ Written(w)
    /\ dir[TempPath(w.path)] = 0
    /\ Raised(id, "rename", inode)

\* temp_path.replace(file_path) raises (OSError)
RenameFails(id) ==
    LET w == writer[id] IN
    /\ w.pc = "write"
    /\ Written(w)
    /\ Raised(id, "rename", inode)

\* The process dies in the middle of the call: no handler runs.
Crash(id) ==
    /\ writer[id].pc \in {"call", "write"}
    /\ writer' = [writer EXCEPT ![id].pc = "crashed", ![id].fd = 0]
    /\ UNCHANGED <<dir, inode, readback, clientVars, taskVars, globalVars, restVars>>

\* A reader reads the file that a save_ndjson call returned, line by line,
\* and decodes each line.
ReadBack(id) ==
    LET w == writer[id]
        file == FileAt(dir, inode, w.path)
        lines == SplitLines(file.text, <<>>)
        decoded == [k \in 1..Len(lines) |-> Loads(lines[k])]
    IN
    /\ w.pc = "returned"
    /\ w.mode = "ndjson"
    /\ ~readback.done
    /\ readback' =
        [done |-> TRUE,
         ok |-> file.exists /\ \A k \in 1..Len(lines) : decoded[k].ok,
         values |-> [k \in 1..Len(lines) |-> decoded[k].value],
         lines |-> Len(lines),
         terminated |-> (file.text = <<>> \/ file.text[Len(file.text)] = "LF")]
    /\ UNCHANGED <<dir, inode, writer, clientVars, taskVars, globalVars, restVars>>


(***************************************************************************)
(* DataManager.cleanup_old_files: its state when no call is made.          *)
(***************************************************************************)
CleanOff ==
    /\ folder = <<>>
    /\ cleanup = [pc |-> "off"]
    /\ swept = [removed |-> {}, vanished |-> {}, examined |-> {}]

(***************************************************************************)
(* The DAG crypto_data_pipeline: its tasks, and its state when no run is   *)
(* made.                                                                   *)
(***************************************************************************)
ExtractTasks == {"extract_crypto_prices", "extract_global_metrics"}

Tasks == {"validate_configuration", "log_pipeline_metrics"} \cup ExtractTasks

DagOff ==
    /\ config = [api_key |-> "", crypto_symbols |-> <<>>,
                 fiat_currencies |-> <<>>]
    /\ ti = [t \in Tasks |-> "off"]
    /\ tries = [t \in Tasks |-> 0]
    /\ requested = {}
    /\ run = "off"
    /\ summary = "off"

(***************************************************************************)
(* CoinMarketCapClient.get_global_market_data: its state when no call is   *)
(* made.                                                                   *)
(***************************************************************************)
\* enriched_data = {'@timestamp': ..., 'quotes': {}}: no key
\* 'active_cryptocurrencies' yet ("unset"), no static metadata yet
NewEnriched == [active |-> "unset", meta |-> "unset", quotes |-> <<>>]

GlobalOff ==
    /\ g_pc = "off"
    /\ g_ci = 1
    /\ g_currencies = <<>>
    /\ enriched_data = NewEnriched
    /\ g_result = <<>>
    /\ g_seen = <<>>
    /\ g_slept = 0

(***************************************************************************)
(* CoinMarketCapClient.collect_crypto_data and _make_request.              *)
(***************************************************************************)
Min(a, b) == IF a < b THEN a ELSE b

\* time.sleep(0.5), in milliseconds
SleepMs == 500

\* The sleep is the last statement of the try block: it runs when the fold
\* ran to its end ("merged") and is skipped when the handler took over.
Slept(how) == IF how = "merged" THEN SleepMs ELSE 0

\* Mutant of Batch: the slice ends one symbol early.
Batch_OneShort(syms, off) ==
    SubSeq(syms, off + 1, Min(off + batch_size - 1, Len(syms)))

\* batch = symbols[i:i + batch_size]
Batch(syms, off) == SubSeq(syms, off + 1, Min(off + batch_size, Len(syms)))

\* for currency in convert_currencies: for i in range(0, len(symbols), batch_size)
LoopDone == ci > Len(convert_currencies) \/ Len(symbols) = 0

\* Mutant of MoreBatches: the loop over the batches is left after one batch.
MoreBatches_Never(off) == FALSE

\* the inner loop has another i: range(0, len(symbols), batch_size)
MoreBatches(off) == off + batch_size < Len(symbols)

\* Mutant of CountRequest: the request is counted twice.
CountRequest_Twice(count) == count + 2

\* self.request_count += 1   (once in each _make_request)
CountRequest(count) == count + 1

\* Mutant of RetryExhausted: one more retry is allowed.
RetryExhausted_Late(total) == total - 1 < -1

\* urllib3's Retry.increment: total - 1, exhausted when that is below 0
RetryExhausted(total) == total - 1 < 0

\* The statuses that raise_for_status raises on and no retry is made for
\* (401, a 4xx other than 429).
ClientErrors == {"401", "404"}

\* The class of an answer that is no 200.
Answer(status) == IF status \in ClientErrors THEN "client_error" ELSE "transient"

\* The envelope of a 200: data.get('status', {}).get('error_code')
Envelope(resp) ==
    IF ~resp.json THEN "nojson"
    ELSE IF ~resp.error_code.present THEN "missing"
    ELSE IF resp.error_code.code = 0 THEN "zero" ELSE "nonzero"

\* Mutant of IsRetry: every status but 200 is retried.
IsRetry_All(status) == status # "200"

\* Retry.is_retry: the status is in status_forcelist; an attempt without a
\* response (connection error, timeout) is retried as well
IsRetry(status) == status \in status_forcelist \/ status \in NoResponse

\* Mutant of StatusRejected: a non-zero error_code is let through.
StatusRejected_Lenient(error_code) == ~error_code.present

\* Mutant of StatusRejected: a missing error_code counts as 0.
StatusRejected_MissingOk(error_code) ==
    error_code.present /\ error_code.code # 0

\* if status.get('error_code') != 0: raise
StatusRejected(error_code) == ~(error_code.present /\ error_code.code = 0)

Prefix(s, n) == SubSeq(s, 1, Min(n, Len(s)))

\* The currency lists: the empty list, the lists of the first 1..MaxCurrencies
\* codes, a list that does not begin with the default and a list in another
\* order.
CurrencyLists ==
    {Prefix(CurrencyOrder, k) : k \in 0..MaxCurrencies}
    \cup {<<"EUR">>, <<"BRL", "USD">>}

InitWith(counts, lists) ==
    /\ symbols \in {SymbolList(n) : n \in counts}
    /\ arg_currencies \in lists
    /\ convert_currencies = DefaultCurrencies(arg_currencies)
    /\ ci = 1
    /\ i = 0
    /\ pc = "loop"
    /\ crypto_data_map = <<>>
    /\ failed_symbols = {}
    /\ request_count = 0
    /\ retry_total = RetryTotal
    /\ attempts = 0
    /\ all429 = TRUE
    /\ count0 = 0
    /\ results = <<>>
    /\ sent = <<>>
    /\ last = "none"
    /\ seen = {}
    /\ answered = "none"
    /\ slept = 0
    /\ task = "running"
    /\ saved = FALSE
    /\ metrics = <<>>
    /\ session = "open"
    /\ reclosed = FALSE

Init ==
    InitWith(0..Cardinality(Tracked), CurrencyLists) /\ SinkOff /\ GlobalOff
    /\ CleanOff
    /\ DagOff

\* The log, extended by a response that _make_request returned.
Logged(log, batch, currency, resp) ==
    log \cup {<<x, currency, Entry(resp, x)>> : x \in Range(batch) \cap Tracked}

\* The batch is over (merged, or handled by "except Exception"): the
\* request is no longer in flight and the loops move on.
EndBatch(how, map, failed) ==
    /\ crypto_data_map' = map
    /\ failed_symbols' = failed
    /\ last' = how
    /\ slept' = Slept(how)
    /\ retry_total' = RetryTotal
    /\ attempts' = 0
    /\ all429' = TRUE
    /\ count0' = 0
    /\ IF MoreBatches(i)
       THEN /\ i' = i + batch_size
            /\ ci' = ci
       ELSE /\ i' = 0
            /\ ci' = ci + 1
    /\ pc' = "loop"
    /\ UNCHANGED <<symbols, arg_currencies, convert_currencies, request_count,
                   results, sent>>

\* Mutant of BatchFailed: the failure of a batch ends the run.
BatchFailed_Stops(cause, map, failed) ==
    /\ crypto_data_map' = map
    /\ failed_symbols' = failed \cup Range(Batch(symbols, i))
    /\ last' = cause
    /\ slept' = Slept(cause)
    /\ retry_total' = RetryTotal
    /\ attempts' = 0
    /\ all429' = TRUE
    /\ count0' = 0
    /\ i' = 0
    /\ ci' = Len(convert_currencies) + 1
    /\ pc' = "loop"
    /\ UNCHANGED <<symbols, arg_currencies, convert_currencies, request_count,
                   results, sent>>

\* Mutant of BatchFailed: the handler does not record the batch's symbols.
BatchFailed_Forgets(cause, map, failed) == EndBatch(cause, map, failed)

\* except Exception as e: failed_symbols.update(batch)
BatchFailed(cause, map, failed) ==
    EndBatch(cause, map, failed \cup Range(Batch(symbols, i)))

\* The next batch is cut and its request begins: get_quotes_by_symbol calls
\* _make_request, which counts the request and hands it to the session,
\* which sends the first attempt.
StartRequest ==
    /\ UNCHANGED <<sinkVars, taskVars, globalVars, restVars>>
    /\ pc = "loop"
    /\ ~LoopDone
    /\ sent' = Append(sent, [currency |-> convert_currencies[ci],
                             batch |-> Batch(symbols, i)])
    /\ count0' = request_count
    /\ request_count' = CountRequest(request_count)
    /\ retry_total' = RetryTotal
    /\ attempts' = 1
    /\ all429' = TRUE
    /\ answered' = "none"
    /\ pc' = "http"
    /\ UNCHANGED <<symbols, arg_currencies, convert_currencies, ci, i,
                   crypto_data_map, failed_symbols, results, last, seen, slept>>

\* An attempt ends in a transient status (or in no response) and the retry
\* budget allows another attempt: the adapter sleeps and sends again.
HttpRetry ==
    /\ UNCHANGED <<sinkVars, taskVars, globalVars, restVars>>
    /\ pc = "http"
    /\ \E status \in HttpStatuses \cup NoResponse :
        /\ IsRetry(status)
        /\ ~RetryExhausted(retry_total)
        /\ retry_total' = retry_total - 1
        /\ attempts' = attempts + 1
        /\ all429' = (all429 /\ status = "429")
        /\ answered' = Answer(status)
    /\ UNCHANGED <<symbols, arg_currencies, convert_currencies, ci, i, pc,
                   crypto_data_map, failed_symbols, request_count, count0,
                   results, sent, last, seen, slept>>

\* An attempt ends in a transient status and the budget is used up: the
\* session raises, _make_request re-raises, the batch fails.
HttpExhausted ==
    /\ UNCHANGED <<sinkVars, taskVars, globalVars, restVars>>
    /\ pc = "http"
    /\ \E status \in HttpStatuses \cup NoResponse :
        /\ IsRetry(status)
        /\ RetryExhausted(retry_total)
        /\ BatchFailed("transport", crypto_data_map, failed_symbols)
        /\ answered' = Answer(status)
    /\ UNCHANGED seen

\* An attempt ends in a status that is neither 200 nor retried:
\* raise_for_status raises HTTPError, the batch fails.
HttpError ==
    /\ UNCHANGED <<sinkVars, taskVars, globalVars, restVars>>
    /\ pc = "http"
    /\ \E status \in HttpStatuses :
        /\ status # "200"
        /\ ~IsRetry(status)
        /\ BatchFailed("transport", crypto_data_map, failed_symbols)
        /\ answered' = Answer(status)
    /\ UNCHANGED seen

\* A 200 arrives whose body _make_request refuses (no JSON, or the status
\* envelope check raises): the batch fails.
HttpRefused ==
    /\ UNCHANGED <<sinkVars, taskVars, globalVars, restVars>>
    /\ pc = "http"
    /\ \E resp \in Responses(Batch(symbols, i)) :
        /\ ~resp.json \/ StatusRejected(resp.error_code)
        /\ BatchFailed("api", crypto_data_map, failed_symbols)
        /\ answered' = Envelope(resp)
    /\ UNCHANGED seen

\* A 200 arrives that _make_request returns: the response is folded into
\* the map, symbol by symbol, and the loop sleeps; an exception raised on
\* the way ends the fold and the batch fails with what was folded so far.
HttpOk ==
    /\ UNCHANGED <<sinkVars, taskVars, globalVars, restVars>>
    /\ pc = "http"
    /\ \E resp \in Responses(Batch(symbols, i)) :
        /\ resp.json
        /\ ~StatusRejected(resp.error_code)
        /\ LET batch == Batch(symbols, i)
               currency == convert_currencies[ci]
               f == Fold(crypto_data_map, failed_symbols, batch, currency, resp)
           IN /\ IF f.raised
                 THEN BatchFailed("fold", f.map, f.failed)
                 ELSE EndBatch("merged", f.map, f.failed)
              /\ seen' = Logged(seen, batch, currency, resp)
              /\ answered' = Envelope(resp)

\* results = list(crypto_data_map.values()); return results
Return ==
    /\ UNCHANGED <<sinkVars, taskVars, globalVars, restVars>>
    /\ pc = "loop"
    /\ LoopDone
    /\ results' = crypto_data_map
    /\ pc' = "done"
    /\ UNCHANGED <<symbols, arg_currencies, convert_currencies, ci, i,
                   crypto_data_map, failed_symbols, request_count, retry_total,
                   attempts, all429, count0, sent, last, seen, answered, slept>>

(***************************************************************************)
(* extract_crypto_prices, after collect_crypto_data returned.              *)
(***************************************************************************)
\* Mutant of CloseSession: closing a closed session raises.
CloseSession_Once(s) == IF s = "open" THEN "closed" ELSE "error"

\* def close(self): self.session.close()   (for a requests.Session: the
\* adapters' pools are cleared, whatever the session's state; nothing is
\* raised for a session closed before)
CloseSession(s) == "closed"

\* Mutant of Metrics: the records without any quote are not counted as valid.
Metrics_Quoted(crypto_data, count) ==
    [records_extracted |-> Len(crypto_data),
     records_valid |->
        Cardinality({k \in 1..Len(crypto_data) : crypto_data[k].quotes # <<>>}),
     api_calls |-> count]

\* the value of xcom_push(key='crypto_metrics', ...), without the time
Metrics(crypto_data, count) ==
    [records_extracted |-> Len(crypto_data),
     records_valid |-> Len(crypto_data),
     api_calls |-> count]

\* if crypto_data: save_ndjson(crypto_data, ...) returns; the metrics are
\* pushed; return crypto_data; the with block closes the client
SaveResults ==
    /\ pc = "done"
    /\ task = "running"
    /\ results # <<>>
    /\ task' = "success"
    /\ saved' = TRUE
    /\ metrics' = <<Metrics(results, request_count)>>
    /\ session' = CloseSession(session)
    /\ UNCHANGED <<reclosed, clientVars, sinkVars, globalVars, restVars>>

\* if crypto_data: save_ndjson(crypto_data, ...) raises; the with block
\* closes the client; except Exception: ... raise
SaveResultsFails ==
    /\ pc = "done"
    /\ task = "running"
    /\ results # <<>>
    /\ task' = "raised"
    /\ saved' = FALSE
    /\ session' = CloseSession(session)
    /\ UNCHANGED <<metrics, reclosed, clientVars, sinkVars, globalVars, restVars>>

\* crypto_data is empty: nothing is saved; the metrics are pushed; return
\* crypto_data; the with block closes the client
SkipSave ==
    /\ pc = "done"
    /\ task = "running"
    /\ results = <<>>
    /\ task' = "success"
    /\ saved' = FALSE
    /\ metrics' = <<Metrics(results, request_count)>>
    /\ session' = CloseSession(session)
    /\ UNCHANGED <<reclosed, clientVars, sinkVars, globalVars, restVars>>

\* client.close() is called once more, after the with block closed it.
CloseAgain ==
    /\ task # "running"
    /\ session = "closed"
    /\ session' = CloseSession(session)
    /\ reclosed' = TRUE
    /\ UNCHANGED <<task, saved, metrics, clientVars, sinkVars, globalVars, restVars>>

vars == <<clientVars, sinkVars, taskVars, globalVars, restVars>>

Next ==
    \/ StartRequest
    \/ HttpRetry
    \/ HttpExhausted
    \/ HttpError
    \/ HttpRefused
    \/ HttpOk
    \/ Return
    \/ SaveResults
    \/ SaveResultsFails
    \/ SkipSave
    \/ CloseAgain

Spec == Init /\ [][Next]_vars

\* The same run over long symbol lists (several batches per currency).
InitBatch ==
    InitWith(LongCounts, {<<"BRL">>, <<"USD", "BRL">>}) /\ SinkOff /\ GlobalOff
    /\ CleanOff
    /\ DagOff

SpecBatch == InitBatch /\ [][Next]_vars

(***************************************************************************)
(* One call of save_ndjson or save_json, with the faults a call can meet.  *)
(***************************************************************************)
Lists(items, n) == UNION {[1..k -> items] : k \in 0..n}

\* The state before a call: the final path holds a complete earlier file or
\* nothing, the temporary path holds what an earlier crash left or nothing.
InitSinkWith(modes, datas, befores, stales) ==
    /\ InitWith({0}, {<<>>})
    /\ GlobalOff
    /\ CleanOff
    /\ DagOff
    /\ readback = NoReadback
    /\ \E mode \in modes, data \in datas, output_dir \in Dirs,
          filename \in Filenames, earlier \in befores, stale \in stales :
        LET file_path == FilePath(output_dir, filename)
            old == IF earlier = <<"none">> THEN <<>>
                   ELSE <<Serialized(mode, earlier)>>
            left == IF stale THEN <<Dumps(<<"n">>)>> ELSE <<>>
        IN
        /\ inode = old \o left
        /\ dir = [p \in AllPaths |->
                    IF p = file_path /\ old # <<>> THEN 1
                    ELSE IF p = TempPath(file_path) /\ stale
                    THEN Len(old) + 1 ELSE 0]
        /\ writer = [id \in WriterIds |->
                      IF id = 1
                      THEN [WriterOff EXCEPT
                              !.pc = "call", !.mode = mode, !.path = file_path,
                              !.data = data,
                              !.before = IF old = <<>> THEN NoFile
                                         ELSE [exists |-> TRUE, text |-> old[1]]]
                      ELSE WriterOff]

SinkItems == {<<"n">>, <<"LF", "Q">>}

InitSink ==
    InitSinkWith({"ndjson", "json"}, Lists(SinkItems, MaxRecords),
                 {<<"none">>, << <<"Q">> >>}, BOOLEAN)

NextSink ==
    \E id \in WriterIds :
        \/ Open(id)
        \/ OpenFails(id)
        \/ WriteChunk(id)
        \/ WriteFails(id)
        \/ Rename(id)
        \/ RenameFails(id)
        \/ Crash(id)
        \/ ReadBack(id)

SpecSink == InitSink /\ [][NextSink]_vars

\* Two calls at once, in one directory, on the same filename or on filenames
\* that differ in their suffix only, each with its own records and with no
\* fault but those the calls cause each other.
InitSink2 ==
    /\ InitWith({0}, {<<>>})
    /\ GlobalOff
    /\ CleanOff
    /\ DagOff
    /\ readback = NoReadback
    /\ inode = <<>>
    /\ dir = [p \in AllPaths |-> 0]
    /\ \E mode \in {"ndjson", "json"}, output_dir \in Dirs,
          filename \in [WriterIds -> Filenames],
          count \in [WriterIds -> 1..MaxRecords] :
        writer = [id \in WriterIds |->
                    [WriterOff EXCEPT
                       !.pc = "call", !.mode = mode,
                       !.path = FilePath(output_dir, filename[id]),
                       !.data = [k \in 1..count[id] |->
                                   IF id = 1 THEN <<"n">> ELSE <<"LS">>]]]

NextSink2 ==
    \E id \in WriterIds :
        \/ Open(id)
        \/ WriteChunk(id)
        \/ Rename(id)
        \/ RenameMissing(id)

SpecSink2 == InitSink2 /\ [][NextSink2]_vars

\* Calls of save_ndjson that meet no fault, over every list of up to two
\* records of up to MaxStrLen characters, and their reader.
InitNdjson ==
    InitSinkWith({"ndjson"}, Lists(Strings(MaxStrLen), 2), {<<"none">>}, {FALSE})

NextNdjson ==
    \E id \in WriterIds :
        \/ Open(id)
        \/ WriteChunk(id)
        \/ Rename(id)
        \/ ReadBack(id)

SpecNdjson == InitNdjson /\ [][NextNdjson]_vars


(***************************************************************************)
(* CoinMarketCapClient.get_global_market_data.                             *)
(***************************************************************************)
\* The data of a global-metrics response that _make_request returned:
\*   active   data.get('active_cryptocurrencies'): a positive number ("n"),
\*            0 ("zero"), null or no such key ("null"); "bad" when data is
\*            no dict and data.get raises
\*   quote    whether data['quote'] has the requested currency
\* The other values of the data are written as the currency of the response.
GlobalResponses ==
    [active : {"n", "zero", "null"}, quote : {"ok", "noquote"}]
    \cup {[active |-> "bad", quote |-> "noquote"]}

\* enriched_data.get('active_cryptocurrencies') is truthy
Populated(enriched) == enriched.active = "n"

\* if not enriched_data.get('active_cryptocurrencies'): enriched_data.update(...)
WithMetadata(enriched, currency, resp) ==
    IF ~Populated(enriched)
    THEN [enriched EXCEPT !.active = resp.active, !.meta = currency]
    ELSE enriched

\* if currency in quote_data: enriched_data['quotes'][currency] = {...}
WithQuote(enriched, currency, resp) ==
    IF resp.quote = "ok"
    THEN [enriched EXCEPT !.quotes = PutQuote(@, currency, currency)]
    ELSE enriched

\* One iteration of the loop whose request returns data that can be read.
GlobalOk ==
    /\ g_pc = "loop"
    /\ g_ci <= Len(g_currencies)
    /\ \E resp \in GlobalResponses :
        LET currency == g_currencies[g_ci] IN
        /\ resp.active # "bad"
        /\ enriched_data' =
              WithQuote(WithMetadata(enriched_data, currency, resp),
                        currency, resp)
        /\ g_seen' = Append(g_seen, [currency |-> currency,
                                     active |-> resp.active,
                                     quote |-> resp.quote])
    /\ g_ci' = g_ci + 1
    /\ g_slept' = SleepMs
    /\ UNCHANGED <<g_pc, g_currencies, g_result, clientVars, sinkVars, taskVars, restVars>>

\* One iteration of the loop that raises: _make_request raises (transport
\* or envelope), or the data cannot be read; except Exception: ... raise
GlobalFails ==
    /\ g_pc = "loop"
    /\ g_ci <= Len(g_currencies)
    /\ g_pc' = "raised"
    /\ g_result' = <<>>
    /\ UNCHANGED <<g_ci, g_currencies, enriched_data, g_seen, g_slept,
                   clientVars, sinkVars, taskVars, restVars>>

\* return enriched_data
GlobalReturn ==
    /\ g_pc = "loop"
    /\ g_ci > Len(g_currencies)
    /\ g_pc' = "returned"
    /\ g_result' = <<enriched_data>>
    /\ UNCHANGED <<g_ci, g_currencies, enriched_data, g_seen, g_slept,
                   clientVars, sinkVars, taskVars, restVars>>

\* extract_global_metrics, after get_global_market_data returned: global_data
\* is never empty (it has '@timestamp' and 'quotes'), so it is saved; the
\* metrics are pushed (their api_calls, the count of this client's requests,
\* is not tracked here); return global_data; the with block closes the client
GlobalSaveResults ==
    /\ g_pc = "returned"
    /\ task = "running"
    /\ task' = "success"
    /\ saved' = TRUE
    /\ metrics' = <<[records_extracted |-> 1, records_valid |-> 1]>>
    /\ session' = CloseSession(session)
    /\ UNCHANGED <<reclosed, clientVars, sinkVars, globalVars, restVars>>

\* extract_global_metrics: get_global_market_data raised, or save_ndjson
\* raises; the with block closes the client; except Exception: ... raise
GlobalTaskFails ==
    /\ g_pc \in {"returned", "raised"}
    /\ task = "running"
    /\ task' = "raised"
    /\ saved' = FALSE
    /\ session' = CloseSession(session)
    /\ UNCHANGED <<metrics, reclosed, clientVars, sinkVars, globalVars, restVars>>

InitGlobal ==
    /\ InitWith({0}, {<<>>})
    /\ SinkOff
    /\ CleanOff
    /\ DagOff
    /\ g_pc = "loop"
    /\ g_ci = 1
    /\ g_currencies \in {DefaultCurrencies(l) : l \in CurrencyLists}
    /\ enriched_data = NewEnriched
    /\ g_result = <<>>
    /\ g_seen = <<>>
    /\ g_slept = 0

NextGlobal ==
    \/ GlobalOk
    \/ GlobalFails
    \/ GlobalReturn
    \/ GlobalSaveResults
    \/ GlobalTaskFails
    \/ CloseAgain

SpecGlobal == InitGlobal /\ [][NextGlobal]_vars



(***************************************************************************)
(* DataManager.cleanup_old_files.                                          *)
(***************************************************************************)
Hour == 60 * 60

SecondsPerDay == 24 * Hour

\* The directory: three files that match the pattern and one that does not.
\* The order of FileOrder is the order in which glob yields the files.
FileOrder == <<"a.json", "b.json", "c.json">>

Matching == Range(FileOrder)

AllFiles == Matching \cup {"notes.txt"}

\* The ages of the files, in seconds: 1, 10 and 40 days, and an hour less
\* and an hour more than the threshold.
Ages(days_old) ==
    {1 * SecondsPerDay, 10 * SecondsPerDay, 40 * SecondsPerDay,
     days_old * SecondsPerDay - Hour, days_old * SecondsPerDay + Hour}

\* The offsets from UTC of the local time zone of the process, in hours.
UtcOffsets == {-5, 0, 9}

\* datetime.utcnow().timestamp(): utcnow() is the UTC wall clock as a naive
\* datetime, and timestamp() reads a naive datetime as local time, so the
\* result is the epoch time less the local zone's offset from UTC.
UtcNowTimestamp(clock, utcoffset) == clock - utcoffset * Hour

\* directory.glob(pattern): the existing files that match, in glob's order
Glob(fs) == SelectSeq(FileOrder, LAMBDA f : fs[f].exists /\ fs[f].matches)

\* A call of cleanup_old_files(pattern, days_old) about to begin, in a
\* directory whose files all exist; at most one of them cannot be unlinked.
InitCleanup ==
    /\ InitWith({0}, {<<>>})
    /\ SinkOff
    /\ GlobalOff
    /\ DagOff
    /\ swept = [removed |-> {}, vanished |-> {}, examined |-> {}]
    /\ \E days_old \in {7, 30}, utcoffset \in UtcOffsets,
          locked \in {{}} \cup {{f} : f \in Matching} :
        \E age \in [Matching -> Ages(days_old)] :
            LET clock == 20000 * SecondsPerDay IN
            /\ folder = [f \in AllFiles |->
                  [exists |-> TRUE,
                   st_mtime |-> clock - (IF f \in Matching THEN age[f]
                                         ELSE 40 * SecondsPerDay),
                   matches |-> f \in Matching,
                   locked |-> f \in locked]]
            /\ cleanup = [pc |-> "call", days_old |-> days_old,
                          utcoffset |-> utcoffset, clock |-> clock,
                          now |-> 0, max_age_seconds |-> 0, listed |-> <<>>,
                          k |-> 0, removed_count |-> 0]

\* now = datetime.utcnow().timestamp(); max_age_seconds = days_old * 24 * 60
\* * 60; removed_count = 0; the loop begins: glob lists the directory
CleanupBegin ==
    /\ cleanup.pc = "call"
    /\ cleanup' = [cleanup EXCEPT
                     !.pc = "stat",
                     !.now = UtcNowTimestamp(cleanup.clock, cleanup.utcoffset),
                     !.max_age_seconds = cleanup.days_old * SecondsPerDay,
                     !.listed = Glob(folder),
                     !.k = 1,
                     !.removed_count = 0]
    /\ UNCHANGED <<folder, swept, clientVars, sinkVars, taskVars, globalVars,
                   dagVars>>

\* file_age = now - file_path.stat().st_mtime (stat raises when the file is
\* gone, outside any try: the call raises); if file_age > max_age_seconds:
CleanupStat ==
    /\ cleanup.pc = "stat"
    /\ cleanup.k <= Len(cleanup.listed)
    /\ LET file_path == cleanup.listed[cleanup.k] IN
       IF ~folder[file_path].exists
       THEN /\ cleanup' = [cleanup EXCEPT !.pc = "raised"]
            /\ swept' = swept
       ELSE LET file_age == cleanup.now - folder[file_path].st_mtime IN
            /\ cleanup' = IF file_age > cleanup.max_age_seconds
                          THEN [cleanup EXCEPT !.pc = "unlink"]
                          ELSE [cleanup EXCEPT !.k = @ + 1]
            /\ swept' = [swept EXCEPT !.examined = @ \cup {file_path}]
    /\ UNCHANGED <<folder, clientVars, sinkVars, taskVars, globalVars,
                   dagVars>>

\* try: file_path.unlink(); removed_count += 1; except Exception: (logged)
CleanupUnlink ==
    /\ cleanup.pc = "unlink"
    /\ LET file_path == cleanup.listed[cleanup.k] IN
       IF folder[file_path].exists /\ ~folder[file_path].locked
       THEN /\ folder' = [folder EXCEPT ![file_path].exists = FALSE]
            /\ cleanup' = [cleanup EXCEPT !.pc = "stat", !.k = @ + 1,
                                          !.removed_count = @ + 1]
            /\ swept' = [swept EXCEPT !.removed = @ \cup {file_path}]
       ELSE /\ folder' = folder
            /\ cleanup' = [cleanup EXCEPT !.pc = "stat", !.k = @ + 1]
            /\ swept' = swept
    /\ UNCHANGED <<clientVars, sinkVars, taskVars, globalVars,
                   dagVars>>

\* return removed_count
CleanupReturn ==
    /\ cleanup.pc = "stat"
    /\ cleanup.k > Len(cleanup.listed)
    /\ cleanup' = [cleanup EXCEPT !.pc = "returned"]
    /\ UNCHANGED <<folder, swept, clientVars, sinkVars, taskVars, globalVars,
                   dagVars>>

\* Another process removes a file of the directory while the call runs.
Vanish ==
    /\ cleanup.pc \in {"stat", "unlink"}
    /\ \E f \in Matching :
        /\ folder[f].exists
        /\ folder' = [folder EXCEPT ![f].exists = FALSE]
        /\ swept' = [swept EXCEPT !.vanished = @ \cup {f}]
    /\ UNCHANGED <<cleanup, clientVars, sinkVars, taskVars, globalVars,
                   dagVars>>

NextCleanup ==
    \/ CleanupBegin
    \/ CleanupStat
    \/ CleanupUnlink
    \/ CleanupReturn
    \/ Vanish

SpecCleanup == InitCleanup /\ [][NextCleanup]_vars


(***************************************************************************)
(* CryptoConfig and the DAG crypto_data_pipeline.                          *)
(***************************************************************************)
\* DEFAULT_CRYPTO_SYMBOLS (its first symbols) and DEFAULT_FIAT_CURRENCIES
DEFAULT_CRYPTO_SYMBOLS == <<"BTC", "ETH", "BNB">>

DEFAULT_FIAT_CURRENCIES == <<"BRL">>

\* The environment: COINMARKETCAP_API_KEY set or not; CRYPTO_SYMBOLS and
\* FIAT_CURRENCIES as the names they hold, split at the commas and stripped
\* (<<>>: the variable is unset or empty; a string that is not empty splits
\* into at least one name, which may be empty).
Environments ==
    [api_key : {"", "key"},
     crypto_symbols : {<<>>, <<"ETH">>, <<"XYZ">>, <<"XYZ", "BTC">>},
     fiat_currencies : {<<>>, <<"USD">>, <<"USD", "BRL">>, <<"">>}]

\* CryptoConfig.get_crypto_symbols
get_crypto_symbols(env) ==
    IF env.crypto_symbols # <<>>
    THEN SelectSeq(DEFAULT_CRYPTO_SYMBOLS,
                   LAMBDA s : s \in Range(env.crypto_symbols))
    ELSE DEFAULT_CRYPTO_SYMBOLS

\* CryptoConfig.get_fiat_currencies
get_fiat_currencies(env) ==
    IF env.fiat_currencies # <<>> THEN env.fiat_currencies
    ELSE DEFAULT_FIAT_CURRENCIES

\* Mutant of validate: only the API key is checked.
validate_KeyOnly(env) ==
    IF env.api_key = "" THEN "no_api_key" ELSE "valid"

\* CryptoConfig.validate: the ValueError it raises, or "valid"
validate(env) ==
    IF env.api_key = "" THEN "no_api_key"
    ELSE IF get_crypto_symbols(env) = <<>> THEN "no_symbols"
    ELSE IF get_fiat_currencies(env) = <<>> THEN "no_currencies"
    ELSE "valid"

\* default_args: 'retries': 2
Retries == 2

\* validate_config >> [extract_prices, extract_global] >> log_metrics
Upstream(t) ==
    IF t = "validate_configuration" THEN {}
    ELSE IF t \in ExtractTasks THEN {"validate_configuration"}
    ELSE ExtractTasks

\* A DAG run begins: no task instance has run.
InitDag ==
    /\ InitWith({0}, {<<>>})
    /\ SinkOff
    /\ GlobalOff
    /\ CleanOff
    /\ config \in Environments
    /\ ti = [t \in Tasks |-> "none"]
    /\ tries = [t \in Tasks |-> 0]
    /\ requested = {}
    /\ run = "running"
    /\ summary = "off"

\* A task instance may start: it is not done and every task upstream of it
\* succeeded (the default trigger rule).
MayStart(t) ==
    /\ run = "running"
    /\ ti[t] \in {"none", "up_for_retry"}
    /\ \A u \in Upstream(t) : ti[u] = "success"

\* A try of a task raised: it is retried while tries are left, else it has
\* failed.
AfterRaise(t) == IF tries[t] < 1 + Retries THEN "up_for_retry" ELSE "failed"

\* validate_configuration runs: CryptoConfig.validate() returns, or raises
\* and the task re-raises
ValidateTask ==
    /\ MayStart("validate_configuration")
    /\ tries' = [tries EXCEPT !["validate_configuration"] = @ + 1]
    /\ ti' = [ti EXCEPT !["validate_configuration"] =
                IF validate(config) = "valid" THEN "success"
                ELSE IF tries'["validate_configuration"] < 1 + Retries
                THEN "up_for_retry" ELSE "failed"]
    /\ UNCHANGED <<config, requested, run, summary, clientVars, sinkVars,
                   taskVars, globalVars, cleanVars>>

\* An extraction task starts.
ExtractStarts ==
    /\ \E t \in ExtractTasks :
        /\ MayStart(t)
        /\ ti' = [ti EXCEPT ![t] = "running"]
        /\ tries' = [tries EXCEPT ![t] = @ + 1]
    /\ UNCHANGED <<config, requested, run, summary, clientVars, sinkVars,
                   taskVars, globalVars, cleanVars>>

\* A running extraction task sends a request to the API.
ExtractRequests ==
    /\ \E t \in ExtractTasks :
        /\ ti[t] = "running"
        /\ t \notin requested
        /\ requested' = requested \cup {t}
    /\ UNCHANGED <<config, ti, tries, run, summary, clientVars, sinkVars,
                   taskVars, globalVars, cleanVars>>

\* A running extraction task returns, or raises.
ExtractEnds ==
    /\ \E t \in ExtractTasks :
        /\ ti[t] = "running"
        /\ \E end \in {"success", AfterRaise(t)} :
            ti' = [ti EXCEPT ![t] = end]
    /\ UNCHANGED <<config, tries, requested, run, summary, clientVars,
                   sinkVars, taskVars, globalVars, cleanVars>>

\* A task upstream did not succeed: the task is not run.
UpstreamFailed ==
    /\ run = "running"
    /\ \E t \in Tasks :
        /\ ti[t] = "none"
        /\ \E u \in Upstream(t) : ti[u] \in {"failed", "upstream_failed"}
        /\ ti' = [ti EXCEPT ![t] = "upstream_failed"]
    /\ UNCHANGED <<config, tries, requested, run, summary, clientVars,
                   sinkVars, taskVars, globalVars, cleanVars>>

\* log_pipeline_metrics runs: it returns, whatever happens in its try block
LogMetricsTask ==
    /\ MayStart("log_pipeline_metrics")
    /\ tries' = [tries EXCEPT !["log_pipeline_metrics"] = @ + 1]
    /\ ti' = [ti EXCEPT !["log_pipeline_metrics"] = "success"]
    /\ UNCHANGED <<config, requested, run, summary, clientVars, sinkVars,
                   taskVars, globalVars, cleanVars>>

\* Every task instance is done: the run ends and its callback is called
\* (on_success_callback, on_failure_callback).
RunEnds ==
    /\ run = "running"
    /\ \A t \in Tasks : ti[t] \in {"success", "failed", "upstream_failed"}
    /\ run' = IF \A t \in Tasks : ti[t] = "success" THEN "success" ELSE "failed"
    /\ UNCHANGED <<config, ti, tries, requested, summary, clientVars,
                   sinkVars, taskVars, globalVars, cleanVars>>

NextDag ==
    \/ ValidateTask
    \/ ExtractStarts
    \/ ExtractRequests
    \/ ExtractEnds
    \/ UpstreamFailed
    \/ LogMetricsTask
    \/ RunEnds

SpecDag == InitDag /\ [][NextDag]_vars


(***************************************************************************)
(* log_pipeline_metrics and DataManager.save_pipeline_execution.           *)
(***************************************************************************)
\* Mutant of LogHandler: the handler re-raises.
LogHandler_Reraises(outcome) ==
    IF outcome = "raised" THEN "raised" ELSE "returned"

\* except Exception as e: logger.error(...)  (nothing is raised again): how
\* the task ends, given how its try block ended
LogHandler(outcome) == "returned"

\* The extraction task's save_ndjson call has returned (call 2): its file
\* is in the raw directory.  log_pipeline_metrics begins; the summary's path
\* holds an earlier summary or nothing, its temporary path holds what an
\* earlier crash left or nothing.
InitSummary ==
    /\ InitWith({0}, {<<>>})
    /\ GlobalOff
    /\ CleanOff
    /\ readback = NoReadback
    /\ config = [api_key |-> "", crypto_symbols |-> <<>>,
                 fiat_currencies |-> <<>>]
    /\ ti = [t \in Tasks |-> "off"]
    /\ tries = [t \in Tasks |-> 0]
    /\ requested = {}
    /\ run = "off"
    /\ summary = "building"
    /\ \E records \in Lists(SinkItems, MaxRecords) \ {<<>>},
          earlier \in BOOLEAN, stale \in BOOLEAN :
        LET output == FilePath("raw", [stem |-> "crypto_prices_T",
                                       suffix |-> ".json"])
            target == FilePath("raw", SummaryFilename)
            files == <<Serialized("ndjson", records)>>
                     \o (IF earlier THEN <<Line(<<"Q">>)>> ELSE <<>>)
                     \o (IF stale THEN <<Dumps(<<"n">>)>> ELSE <<>>)
        IN
        /\ inode = files
        /\ dir = [p \in AllPaths |->
                    IF p = output THEN 1
                    ELSE IF p = target /\ earlier THEN 2
                    ELSE IF p = TempPath(target) /\ stale THEN Len(files)
                    ELSE 0]
        /\ writer = [id \in WriterIds |->
                      IF id = 2
                      THEN [WriterOff EXCEPT
                              !.pc = "returned", !.mode = "ndjson",
                              !.path = output, !.data = records,
                              !.k = Len(records), !.renamed = TRUE]
                      ELSE WriterOff]

\* The try block raises before anything is written (xcom_pull, the metrics
\* document, DataManager()); the handler logs it and the task returns.
LogBuildFails ==
    /\ summary = "building"
    /\ summary' = LogHandler("raised")
    /\ UNCHANGED <<config, ti, tries, requested, run, clientVars, sinkVars,
                   taskVars, globalVars, cleanVars>>

\* data_manager.save_pipeline_execution(metrics): save_ndjson([metrics],
\* "pipeline_execution_<timestamp>.json") is called (call 1)
LogSaveBegins ==
    /\ summary = "building"
    /\ summary' = "saving"
    /\ \E execution_data \in SinkItems :
        LET target == FilePath("raw", SummaryFilename) IN
        writer' = [writer EXCEPT ![1] =
                     [WriterOff EXCEPT
                        !.pc = "call", !.mode = "ndjson", !.path = target,
                        !.data = <<execution_data>>,
                        !.before = FileAt(dir, inode, target)]]
    /\ UNCHANGED <<config, ti, tries, requested, run, dir, inode, readback,
                   clientVars, taskVars, globalVars, cleanVars>>

\* save_pipeline_execution returned or raised: the task logs and returns.
LogSaveEnds ==
    /\ summary = "saving"
    /\ writer[1].pc \in {"returned", "raised"}
    /\ summary' = LogHandler(writer[1].pc)
    /\ UNCHANGED <<config, ti, tries, requested, run, clientVars, sinkVars,
                   taskVars, globalVars, cleanVars>>

NextSummary ==
    \/ LogBuildFails
    \/ LogSaveBegins
    \/ LogSaveEnds
    \/ \E id \in WriterIds :
        \/ Open(id)
        \/ OpenFails(id)
        \/ WriteChunk(id)
        \/ WriteFails(id)
        \/ Rename(id)
        \/ RenameFails(id)

SpecSummary == InitSummary /\ [][NextSummary]_vars


(***************************************************************************)
(* Properties.                                                             *)
(***************************************************************************)
Keys(quotes) == [k \in 1..Len(quotes) |-> quotes[k].currency]

RECURSIVE Concat(_)
Concat(seqs) == IF seqs = <<>> THEN <<>> ELSE Head(seqs) \o Concat(Tail(seqs))

\* The batches requested so far under a currency, in the order sent.
BatchesUnder(currency) ==
    LET under == SelectSeq(sent, LAMBDA r : r.currency = currency)
    IN [k \in 1..Len(under) |-> under[k].batch]

\* The log: the entry a returned response under a currency had for a symbol
\* ("none" when no response was returned for it under that currency).
EntrySeen(symbol, currency) ==
    IF \E e \in Outcomes : <<symbol, currency, e>> \in seen
    THEN CHOOSE e \in Outcomes : <<symbol, currency, e>> \in seen
    ELSE "none"

\* The fold of the response under a currency got as far as the symbol: no
\* symbol before it in the batch had an entry the fold raises on.
Reached(symbol, currency) ==
    /\ EntrySeen(symbol, currency) # "none"
    /\ \A k \in 1..Len(symbols) :
        symbols[k] = symbol =>
            \A j \in 1..(k - 1) :
                EntrySeen(symbols[j], currency) \notin {"bad", "badquote"}

\* C1: under each currency, the batches sent are contiguous chunks of the
\* symbol list, in order, each of 1..batch_size symbols; together they are
\* a prefix of the list while the currency is being processed and the whole
\* list once it is done, and no symbol is in two of them.
C1_BatchesPartition ==
    \A k \in 1..Len(convert_currencies) :
        LET bs == BatchesUnder(convert_currencies[k])
            all == Concat(bs)
        IN /\ \A j \in 1..Len(bs) : Len(bs[j]) >= 1 /\ Len(bs[j]) <= batch_size
           /\ Len(all) <= Len(symbols)
           /\ all = SubSeq(symbols, 1, Len(all))
           /\ Cardinality(Range(all)) = Len(all)
           /\ (k < ci => all = symbols)
           /\ (k > ci => all = <<>>)

\* C1: a list of more than two full batches was collected under two
\* currencies, in three batches each.
C1_Witness ==
    /\ pc = "done"
    /\ Len(symbols) > 2 * batch_size
    /\ Len(convert_currencies) = 2
    /\ Len(sent) = 6
    /\ Len(sent[1].batch) = batch_size
    /\ Len(sent[3].batch) = Len(symbols) - 2 * batch_size

\* C2 (as claimed): the static metadata of every record are the values of the
\* first currency whose response had the symbol.
C2_StaticFromFirst ==
    \A k \in 1..Len(crypto_data_map) :
        LET r == crypto_data_map[k]
            had == {j \in 1..Len(convert_currencies) :
                      EntrySeen(r.symbol, convert_currencies[j])
                          \in {"ok", "noquote", "badquote"}}
        IN had # {} =>
             r.name = convert_currencies[CHOOSE j \in had : \A h \in had : j <= h]

\* C3: a batch that fails at transport level adds every symbol of the batch
\* to failed_symbols and leaves the record map as it was.
C3_TransportFailureFrame ==
    [][(pc = "http" /\ pc' = "loop" /\ last' = "transport") =>
          /\ crypto_data_map' = crypto_data_map
          /\ failed_symbols' = failed_symbols \cup Range(Batch(symbols, i))]_vars

\* C3: a transport failure under a third currency, after both symbols got
\* records with quotes.
C3_Witness ==
    /\ last = "transport"
    /\ Len(crypto_data_map) = 2
    /\ \A k \in 1..2 : crypto_data_map[k].quotes # <<>>
    /\ failed_symbols = Range(symbols)
    /\ ci = 3

\* C4 (as claimed): a request is sent at most 5 times.
C4_AtMostFiveAttempts == attempts <= 5

\* C4 (amended): a request is sent at most RetryTotal + 1 = 6 times: the
\* first attempt and RetryTotal retries.
C4_AtMostSixAttempts ==
    /\ attempts <= RetryTotal + 1
    /\ pc = "http" => attempts = (RetryTotal - retry_total) + 1

\* C4: the sixth attempt of a request is in flight and no retry is left.
C4_Witness == pc = "http" /\ attempts = RetryTotal + 1 /\ retry_total = 0

\* The fourth attempt of a request, sent after three 429 answers, is answered
\* by a 200 that is merged.
C5_Scenario ==
    /\ pc = "http"
    /\ attempts = 4
    /\ all429
    /\ pc' = "loop"
    /\ last' = "merged"

\* C5 (as claimed): in that scenario request_count has grown by 4.
C5_CountsAttempts == [][C5_Scenario => request_count' = count0 + 4]_vars

\* C5 (amended): in that scenario request_count has grown by 1 (the request
\* is counted once, its retries are not) and the batch was requested once.
C5_CountsRequests ==
    [][C5_Scenario =>
          /\ request_count' = count0 + 1
          /\ sent' = sent
          /\ request_count' = Len(sent')]_vars

\* C5: the fourth attempt of a request is in flight after three 429
\* answers, and the request was counted once.
C5_Witness ==
    /\ pc = "http"
    /\ attempts = 4
    /\ all429
    /\ request_count = count0 + 1
    /\ crypto_data_map # <<>>

\* C6: a symbol that a returned response lacks is in failed_symbols, and its
\* record still has every quote slice that was merged for it under the other
\* currencies; in the scenario (symbols 1 and 2, USD then BRL, symbol 2
\* missing under BRL only) the result is two records, the first with the
\* keys USD, BRL, the second with the key USD, and failed_symbols = {2}.
C6_Scenario ==
    /\ pc = "done"
    /\ symbols = <<1, 2>>
    /\ convert_currencies = <<"USD", "BRL">>
    /\ seen = {<<1, "USD", "ok">>, <<2, "USD", "ok">>,
               <<1, "BRL", "ok">>, <<2, "BRL", "absent">>}

C6_AbsentKeepsQuotes ==
    /\ \A s \in Range(symbols), c \in Range(convert_currencies) :
        EntrySeen(s, c) = "absent" =>
            /\ s \in failed_symbols
            /\ \A c0 \in Range(convert_currencies) :
                (Reached(s, c0) /\ EntrySeen(s, c0) = "ok") =>
                    /\ Has(crypto_data_map, s)
                    /\ \E k \in 1..Len(Get(crypto_data_map, s).quotes) :
                        Get(crypto_data_map, s).quotes[k] =
                            [currency |-> c0, price |-> c0]
    /\ C6_Scenario =>
        /\ Len(results) = 2
        /\ results[1].symbol = 1
        /\ Keys(results[1].quotes) = <<"USD", "BRL">>
        /\ results[2].symbol = 2
        /\ Keys(results[2].quotes) = <<"USD">>
        /\ failed_symbols = {2}

\* C6: the scenario has run to its end.
C6_Witness == C6_Scenario /\ failed_symbols = {2} /\ Len(results) = 2

\* C7 (as claimed): the keys of every record's quote mapping are exactly the
\* requested currencies whose returned response had the symbol with quote
\* data for the currency, in the order of the currency list.
C7_QuoteKeys ==
    \A k \in 1..Len(crypto_data_map) :
        LET r == crypto_data_map[k] IN
        Keys(r.quotes) =
            SelectSeq(convert_currencies,
                      LAMBDA c : EntrySeen(r.symbol, c) = "ok")

\* The calls of save_ndjson / save_json that were made.
Calls == {id \in WriterIds : writer[id].pc # "off"}

\* What is at the final path of a call, and at its temporary path.
FinalOf(id) == FileAt(dir, inode, writer[id].path)

TempOf(id) == FileAt(dir, inode, TempPath(writer[id].path))

Complete(id) ==
    [exists |-> TRUE, text |-> Serialized(writer[id].mode, writer[id].data)]

\* C8: a call writes to a temporary path in the directory of the final path,
\* never to the final path; until the rename the final path holds what it
\* held before the call (also after a crash), and at every moment a reader
\* of the final path finds the old complete content or the new complete
\* content.
C8_NoPartialFinal ==
    \A id \in Calls :
        LET w == writer[id] IN
        /\ TempPath(w.path).dir = w.path.dir
        /\ w.fd # 0 => dir[TempPath(w.path)] = w.fd /\ dir[w.path] # w.fd
        /\ ~w.renamed => FinalOf(id) = w.before
        /\ FinalOf(id) \in {w.before, Complete(id)}

\* C8: the process died after the whole temporary file was written and
\* before the rename, and the final path still holds the earlier file.
C8_Witness ==
    \E id \in Calls :
        LET w == writer[id] IN
        /\ w.pc = "crashed"
        /\ ~w.renamed
        /\ Len(w.data) >= 1
        /\ TempOf(id) = Complete(id)
        /\ w.before.exists
        /\ w.before # Complete(id)
        /\ FinalOf(id) = w.before

\* C9: when a call has raised (the open, the serialisation or the rename
\* failed), its temporary path does not exist and its final path holds what
\* it held before the call.
C9_FailureCleansUp ==
    \A id \in Calls :
        writer[id].pc = "raised" =>
            /\ writer[id].failedAt \in {"open", "write", "rename"}
            /\ ~TempOf(id).exists
            /\ FinalOf(id) = writer[id].before

\* C9: a call raised in the middle of its second record, over a final path
\* that held an earlier file.
C9_Witness ==
    \E id \in Calls :
        /\ writer[id].pc = "raised"
        /\ writer[id].failedAt = "write"
        /\ writer[id].k >= 1
        /\ writer[id].before.exists
        /\ ~TempOf(id).exists

\* C10: what a reader decodes, line by line, from the file of a save_ndjson
\* call is the list that was written: every line decodes, there is one line
\* per record, each ended by a line feed, and the values are the records in
\* their order.
C10_RoundTrip ==
    \A id \in Calls :
        (writer[id].pc = "returned" /\ readback.done) =>
            /\ readback.ok
            /\ readback.lines = Len(writer[id].data)
            /\ readback.terminated
            /\ readback.values = writer[id].data

\* C10: a list of two records was read back whose strings hold a line feed,
\* a quote and the two characters of an escaped line feed.
C10_Witness ==
    \E id \in Calls :
        /\ readback.done
        /\ writer[id].data = << <<"LF", "Q">>, <<"BS", "n">> >>
        /\ readback.values = writer[id].data

\* Every batch of the run failed: requests were made and no record exists.
EveryBatchFailed == sent # <<>> /\ results = <<>> /\ crypto_data_map = <<>>

\* C11 (as claimed): extract_crypto_prices raises only when there is no
\* record at all or the save failed; with a record and a non-empty
\* failed_symbols it returns; and when every batch failed under every
\* currency it does not return normally.
C11_FailsOnlyWithoutOutput ==
    /\ task = "raised" => (results = <<>> \/ ~saved)
    /\ (task # "running" /\ results # <<>> /\ saved) => task = "success"
    /\ (task # "running" /\ EveryBatchFailed) => task # "success"

\* ceil(n / batch_size)
BatchCount(n) == (n + batch_size - 1) \div batch_size

\* The plan of a run: the (currency, batch) descriptors, currencies in the
\* outer order, batches in the inner order.
Plan ==
    LET nb == BatchCount(Len(symbols)) IN
    [j \in 1..(Len(convert_currencies) * nb) |->
        LET c == ((j - 1) \div nb) + 1
            b == (j - 1) % nb
        IN [currency |-> convert_currencies[c],
            batch |-> SubSeq(symbols, b * batch_size + 1,
                             Min((b + 1) * batch_size, Len(symbols)))]]

\* C12: the requests made so far are the first descriptors of the plan, each
\* once and in plan order, whatever the outcome of the earlier ones, and
\* request_count is their number; when the run is over every descriptor was
\* requested and request_count is k * ceil(n / 100), for n symbols and the k
\* currencies of the run.
C12_EveryDescriptorOnce ==
    /\ request_count = Len(sent)
    /\ Len(sent) <= Len(Plan)
    /\ sent = SubSeq(Plan, 1, Len(sent))
    /\ pc = "done" =>
        /\ sent = Plan
        /\ request_count = Len(convert_currencies) * BatchCount(Len(symbols))

\* C12: a run over more than two full batches and two currencies is over;
\* every batch of the first currency failed, and six requests were made.
C12_Witness ==
    /\ pc = "done"
    /\ Len(symbols) > 2 * batch_size
    /\ Len(convert_currencies) = 2
    /\ failed_symbols = Range(symbols)
    /\ Len(results) = Len(symbols)
    /\ \A k \in 1..Len(results) : Keys(results[k].quotes) = <<convert_currencies[2]>>
    /\ request_count = 6

\* C13 (as claimed): with an empty symbol list or an empty currency list
\* given, no request is made and the returned list is empty.
C13_EmptyPlan ==
    (symbols = <<>> \/ arg_currencies = <<>>) =>
        /\ sent = <<>>
        /\ request_count = 0
        /\ results = <<>>

\* The position of a currency in the list of the run (0 when it is not in it).
CurrencyIndex(currency) ==
    IF \E k \in 1..Len(convert_currencies) : convert_currencies[k] = currency
    THEN CHOOSE k \in 1..Len(convert_currencies) : convert_currencies[k] = currency
    ELSE 0

\* The requests made so far go currency by currency in list order and,
\* under a currency, batch by batch in list order: each request is for the
\* batch after the one before it under the same currency, or for the first
\* batch of the next currency once the last batch of the currency before was
\* requested.
InPlanOrder(reqs) ==
    \A j \in 1..Len(reqs) :
        LET b == CurrencyIndex(reqs[j].currency) IN
        /\ b # 0
        /\ j = 1 => b = 1 /\ reqs[j].batch[1] = symbols[1]
        /\ j > 1 =>
            LET a == CurrencyIndex(reqs[j - 1].currency)
                before == reqs[j - 1].batch
            IN \/ /\ b = a
                  /\ reqs[j].batch[1] = before[Len(before)] + 1
               \/ /\ b = a + 1
                  /\ reqs[j].batch[1] = symbols[1]
                  /\ before[Len(before)] = symbols[Len(symbols)]

\* C14: requests are made with the currencies in the outer loop and the
\* batches in the inner loop, in list order; a request is made only when no
\* request is in flight, that is after the request before it was folded or
\* recorded as failed, so every batch of a currency has ended when the
\* first batch of the next currency is requested.
C14_CurrencyOuterBatchInner ==
    [][/\ InPlanOrder(sent')
       /\ (sent' # sent) =>
            /\ pc = "loop"
            /\ attempts = 0
            /\ last \in {"none", "merged", "transport", "api", "fold"}
            /\ Len(sent) > 0 => last # "none"
            /\ pc' = "http"
            /\ sent' = Append(sent, [currency |-> convert_currencies[ci],
                                     batch |-> Batch(symbols, i)])
       /\ (pc = "http") => sent' = sent]_vars

\* C14: the first batch of the second currency is in flight after the three
\* batches of the first currency ended, one of them as failed.
C14_Witness ==
    /\ pc = "http"
    /\ Len(symbols) > 2 * batch_size
    /\ Len(sent) = 4
    /\ ci = 2
    /\ i = 0
    /\ failed_symbols # {}
    /\ crypto_data_map # <<>>

\* The batch in flight ends as a failed batch: every symbol of it is in
\* failed_symbols, the record map is as it was, and no further attempt or
\* request is made for it.
EndsAsFailed ==
    /\ pc' = "loop"
    /\ crypto_data_map' = crypto_data_map
    /\ failed_symbols' = failed_symbols \cup Range(Batch(symbols, i))
    /\ sent' = sent
    /\ request_count' = request_count

\* C15: a 200 whose envelope has a non-zero error_code is not retried (the
\* attempts of the request are the first one and the retries of the
\* transient answers before it, one attempt when it answers the first) and
\* the batch ends as a failed batch, refused by _make_request.
C15_ErrorCodeFailsBatch ==
    [][(pc = "http" /\ answered' = "nonzero") =>
          /\ attempts = 1 + (RetryTotal - retry_total)
          /\ last' = "api"
          /\ EndsAsFailed]_vars

\* C15: the request under the second currency was answered by a 200 with a
\* non-zero error_code, after both symbols got records under the first.
C15_Witness ==
    /\ answered = "nonzero"
    /\ last = "api"
    /\ pc = "loop"
    /\ ci = 3
    /\ Len(crypto_data_map) = 2
    /\ \A k \in 1..2 : Keys(crypto_data_map[k].quotes) = <<convert_currencies[1]>>
    /\ failed_symbols = Range(symbols)

\* C16 (as claimed): a 200 whose envelope has no error_code is returned by
\* _make_request: the batch does not end as refused.
C16_MissingCodeAccepted ==
    [][(pc = "http" /\ answered' = "missing") => last' # "api"]_vars

\* C16 (amended): a 200 whose envelope has no error_code is refused by
\* _make_request like a non-zero error_code (None != 0): it raises without
\* a retry and the batch ends as a failed batch.
C16_MissingCodeRefused ==
    [][(pc = "http" /\ answered' = "missing") =>
          /\ last' = "api"
          /\ EndsAsFailed]_vars

\* C16: the only request of a run was answered by a 200 without error_code.
C16_Witness ==
    /\ answered = "missing"
    /\ last = "api"
    /\ pc = "done"
    /\ request_count = 1
    /\ failed_symbols = Range(symbols)
    /\ Len(symbols) = 2
    /\ results = <<>>

\* C17: an answer with a status that is not retried (401, 404) ends the
\* request at once: no further attempt is sent and the batch ends as a
\* failed batch, at transport level.
C17_ClientErrorNotRetried ==
    [][(pc = "http" /\ answered' = "client_error") =>
          /\ attempts = 1 + (RetryTotal - retry_total)
          /\ last' = "transport"
          /\ EndsAsFailed]_vars

\* C17: the only request of a run was answered by a client error.
C17_Witness ==
    /\ answered = "client_error"
    /\ last = "transport"
    /\ pc = "done"
    /\ request_count = 1
    /\ failed_symbols = Range(symbols)
    /\ Len(symbols) = 1

GlobalOver == g_pc \in {"returned", "raised"}

\* The quotes of the result that the caller of get_global_market_data gets
\* (none when it raised).
ResultQuotes == IF g_result = <<>> THEN <<>> ELSE g_result[1].quotes

\* C19 (as claimed): when the call is over, the figures of every currency
\* whose response had them are in the result, whether or not the request of
\* another currency failed.
C19_FiguresKept ==
    GlobalOver =>
        \A k \in 1..Len(g_seen) :
            g_seen[k].quote = "ok" => HasKey(ResultQuotes, g_seen[k].currency)

\* C20 (as claimed): the static metadata are those of the first response
\* that was returned, whatever that response held, and no later response
\* replaces them.
C20_FirstResponseWins ==
    g_seen # <<>> => enriched_data.meta = g_seen[1].currency

(***************************************************************************)
(* The delay between currency passes.                                      *)
(***************************************************************************)
\* The first request of a currency pass after the first one is being sent.
NextPassBegins == pc = "loop" /\ pc' = "http" /\ ci > 1 /\ i = 0

\* C21: before the first request of the second or a later currency is sent,
\* the loop of collect_crypto_data has slept at least 500 ms since the last
\* batch of the previous currency ended, whether that batch was merged or
\* failed.
C21_DelayBetweenPasses ==
    [][NextPassBegins => slept >= SleepMs]_vars

\* C21 (after a merged batch only): when the last batch of the previous
\* currency was merged, the loop has slept 500 ms before the next pass.
C21_DelayAfterMerged ==
    [][(NextPassBegins /\ last = "merged") => slept >= SleepMs]_vars

\* C21 (global snapshot): every request of get_global_market_data after
\* the first is preceded by the 500 ms sleep of the previous iteration.
C21_GlobalDelay ==
    (g_pc = "loop" /\ g_ci > 1) => g_slept >= SleepMs

(***************************************************************************)
(* The end of a run: the session and the metrics.                          *)
(***************************************************************************)
\* C22: once the extraction task has ended (it returned or it raised, after
\* a failed collection or a failed save), the client's session is closed,
\* and it stays closed, without an error, when close is called again.
C22_SessionClosedAtEnd ==
    /\ task # "running" => session = "closed"
    /\ session # "error"

\* C22: the save raised, the with block closed the session and close was
\* called once more.
C22_Witness ==
    /\ task = "raised"
    /\ results # <<>>
    /\ reclosed
    /\ session = "closed"

\* C22 (global snapshot): get_global_market_data raised, the task raised,
\* the session was closed and close was called once more.
C22_GlobalWitness ==
    /\ g_pc = "raised"
    /\ task = "raised"
    /\ reclosed
    /\ session = "closed"

\* C23: when the per-asset task has returned, the metrics it pushed have
\* records_extracted = records_valid = the number of records returned by
\* collect_crypto_data (whatever failed_symbols holds), and api_calls = the
\* client's request_count.
C23_SummaryCounts ==
    task = "success" =>
        /\ Len(metrics) = 1
        /\ metrics[1].records_extracted = Len(results)
        /\ metrics[1].records_valid = metrics[1].records_extracted
        /\ metrics[1].api_calls = request_count

\* C23: a run of two requests ended with two records, one of them without
\* any quote, and a symbol in failed_symbols.
C23_Witness ==
    /\ task = "success"
    /\ Len(results) = 2
    /\ \E k \in 1..2 : results[k].quotes = <<>>
    /\ failed_symbols # {}
    /\ metrics[1].records_valid = 2
    /\ metrics[1].api_calls = 2

(***************************************************************************)
(* The returned list and the failure set.                                  *)
(***************************************************************************)
SymbolsOf(map) == [k \in 1..Len(map) |-> map[k].symbol]

IsPrefix(a, b) == Len(a) <= Len(b) /\ SubSeq(b, 1, Len(a)) = a

\* The place of a symbol in the symbols argument.
PlaceOf(symbol) == CHOOSE k \in 1..Len(symbols) : symbols[k] = symbol

\* The run is over: every symbol asked for has a record or is in
\* failed_symbols, every record is of a symbol asked for, and no two
\* records are of the same symbol.
NoneDropped ==
    pc = "done" =>
        /\ \A s \in Range(symbols) : Has(results, s) \/ s \in failed_symbols
        /\ Range(SymbolsOf(results)) \subseteq Range(symbols)
        /\ \A j, k \in 1..Len(results) :
              results[j].symbol = results[k].symbol => j = k

\* A step keeps the records in place and adds the new ones at the end, in
\* the order of the batch; the list returned is the map in that order.
FirstAppearanceOrder ==
    /\ IsPrefix(SymbolsOf(crypto_data_map), SymbolsOf(crypto_data_map'))
    /\ \A j, k \in (Len(crypto_data_map) + 1)..Len(crypto_data_map') :
          j < k => PlaceOf(crypto_data_map'[j].symbol)
                      < PlaceOf(crypto_data_map'[k].symbol)
    /\ pc' = "done" => SymbolsOf(results') = SymbolsOf(crypto_data_map)

\* C28: at the end of collect_crypto_data no requested symbol is missing
\* from both the returned list and failed_symbols, the returned records are
\* of requested symbols, one per symbol, and they are in the order in which
\* the symbols first got a record.
C28_NoSymbolDropped == []NoneDropped /\ [][FirstAppearanceOrder]_vars

\* C28: a run over two currencies ended with the second symbol's record
\* before the first symbol's (the first symbol was absent under the first
\* currency, so it is in failed_symbols as well).
C28_Witness ==
    /\ pc = "done"
    /\ Len(arg_currencies) = 2
    /\ SymbolsOf(results) = <<2, 1>>
    /\ failed_symbols = {1}

\* The batch in flight ends in the exception handler.
EndsInHandler == pc = "http" /\ pc' = "loop" /\ last' # "merged"

\* C29: when a batch ends in the exception handler (its symbols are added to
\* failed_symbols), the record map is what it was before the batch started,
\* also when the exception was raised in the middle of the fold.
C29_FailedBatchLeavesMap ==
    [][EndsInHandler =>
          /\ failed_symbols' = failed_symbols \cup Range(Batch(symbols, i))
          /\ crypto_data_map' = crypto_data_map]_vars

\* C29 (failures before the fold): a batch whose request failed in the
\* transport or was refused by _make_request leaves the record map as it was.
C29_RequestFailureLeavesMap ==
    [][(EndsInHandler /\ last' # "fold") =>
          /\ failed_symbols' = failed_symbols \cup Range(Batch(symbols, i))
          /\ crypto_data_map' = crypto_data_map]_vars

(***************************************************************************)
(* Two calls of save_ndjson / save_json at once.                           *)
(***************************************************************************)
Ended(id) == writer[id].pc \in {"returned", "raised"}

\* The file a call is writing (it holds it open) is at no final path.
WritesOnlyTemp(id) ==
    writer[id].fd # 0 =>
        \A p \in AllPaths : p.suffix # ".tmp" => dir[p] # writer[id].fd

\* The final file of a call holds the complete content of one of the calls.
FinalIsOneCall(id) ==
    LET file == FileAt(dir, inode, writer[id].path) IN
    /\ file.exists
    /\ \E other \in WriterIds :
          file.text = Serialized(writer[other].mode, writer[other].data)

\* C30: with two calls running at once on the same filename or on filenames
\* that differ in their suffix only, neither call raises, the temporary file
\* is never renamed to a final path while a call still writes it, and when
\* both calls have ended each final file holds the complete content of one
\* of the calls.
C30_ConcurrentWritersSafe ==
    /\ \A id \in WriterIds : writer[id].pc # "raised"
    /\ \A id \in WriterIds : WritesOnlyTemp(id)
    /\ (\A id \in WriterIds : Ended(id)) =>
          \A id \in WriterIds : FinalIsOneCall(id)

\* C30 (when neither call raised): when both calls have ended and neither
\* raised, each final file holds the complete content of one of the calls.
C30_CompleteUnlessRaised ==
    (\A id \in WriterIds : Ended(id)) =>
        ((\E id \in WriterIds : writer[id].pc = "raised")
            \/ \A id \in WriterIds : FinalIsOneCall(id))

(***************************************************************************)
(* Retention cleanup.                                                      *)
(***************************************************************************)
\* The age of a file, in seconds, by the clock.
TrueAge(f) == cleanup.clock - folder[f].st_mtime

\* The files that match the pattern and are older than days_old days.
OldFiles ==
    {f \in Matching : TrueAge(f) > cleanup.days_old * SecondsPerDay}

\* The call met no failure: every file could be unlinked and none was
\* removed by another process.
Undisturbed ==
    /\ swept.vanished = {}
    /\ \A f \in AllFiles : ~folder[f].locked

\* C25: a call of cleanup_old_files that met no failure has removed exactly
\* the files that match the pattern and are older than days_old days, and
\* returns their number.
C25_RemovesExactlyOld ==
    (cleanup.pc = "returned" /\ Undisturbed) =>
        /\ swept.removed = OldFiles
        /\ \A f \in AllFiles : folder[f].exists <=> f \notin OldFiles
        /\ cleanup.removed_count = Cardinality(OldFiles)

\* C25 (the scenario): with files aged 1, 10 and 40 days and a threshold of
\* 30 days the call removes the 40-day file only and returns 1, in every
\* time zone.
C25_Scenario ==
    (/\ cleanup.pc = "returned"
     /\ Undisturbed
     /\ cleanup.days_old = 30
     /\ TrueAge("a.json") = 1 * SecondsPerDay
     /\ TrueAge("b.json") = 10 * SecondsPerDay
     /\ TrueAge("c.json") = 40 * SecondsPerDay) =>
        /\ swept.removed = {"c.json"}
        /\ folder["a.json"].exists /\ folder["b.json"].exists
        /\ ~folder["c.json"].exists
        /\ cleanup.removed_count = 1

\* C25 (local time is UTC): the call removes exactly the old files when the
\* local time zone of the process is UTC.
C25_ExactInUtc ==
    cleanup.pc # "off" /\ cleanup.utcoffset = 0 => C25_RemovesExactlyOld

\* C26: a call of cleanup_old_files never raises: a file that cannot be
\* deleted, or that has disappeared since the directory was listed, is
\* skipped; the call examines every file it listed and returns the number
\* of files it removed itself.
C26_FailureSkipped ==
    /\ cleanup.pc # "raised"
    /\ cleanup.pc = "returned" =>
          /\ \A f \in Range(cleanup.listed) :
                f \in swept.examined \/ f \in swept.vanished
          /\ cleanup.removed_count = Cardinality(swept.removed)

\* C26 (failures of unlink): a call in which no listed file disappeared
\* before it was examined does not raise; when a call returns, its count is
\* the number of files it removed, and a file it could not unlink (it is
\* locked, or it disappeared after stat) is still there or was removed by
\* another process.
C26_UnlinkFailureSkipped ==
    /\ (cleanup.pc = "raised" =>
          cleanup.listed[cleanup.k] \in swept.vanished \ swept.examined)
    /\ (cleanup.pc = "returned" =>
          /\ cleanup.removed_count = Cardinality(swept.removed)
          /\ swept.removed \cap swept.vanished = {}
          /\ \A f \in Matching :
                folder[f].locked => folder[f].exists \/ f \in swept.vanished)

(***************************************************************************)
(* Configuration validation and the DAG run.                               *)
(***************************************************************************)
\* The configuration lacks the API key, or its symbol list or its currency
\* list is empty.
Unusable(env) ==
    \/ env.api_key = ""
    \/ get_crypto_symbols(env) = <<>>
    \/ get_fiat_currencies(env) = <<>>

\* C24: with an unusable configuration no try of validate_configuration
\* succeeds, no extraction task is ever started, no request is sent, and
\* when the DAG run has ended validation has failed and so has the run.
C24_InvalidConfigNeverRuns ==
    (run # "off" /\ Unusable(config)) =>
        /\ ti["validate_configuration"] # "success"
        /\ \A t \in ExtractTasks :
              ti[t] \in {"none", "upstream_failed"} /\ tries[t] = 0
        /\ requested = {}
        /\ run # "running" =>
              ti["validate_configuration"] = "failed" /\ run = "failed"

\* C24: the API key is set but CRYPTO_SYMBOLS names no known symbol; the
\* three tries of the validation raised and the run ended, its other tasks
\* not run.
C24_Witness ==
    /\ config.api_key = "key"
    /\ get_crypto_symbols(config) = <<>>
    /\ tries["validate_configuration"] = 1 + Retries
    /\ run = "failed"
    /\ \A t \in Tasks \ {"validate_configuration"} : ti[t] = "upstream_failed"

(***************************************************************************)
(* The run summary.                                                        *)
(***************************************************************************)
\* C27: log_pipeline_metrics never raises, whether its try block failed
\* before the save or in it (open, write, rename), and at every moment the
\* file that the extraction task saved holds the records it was saved with.
C27_SummaryFailureNonFatal ==
    summary # "off" =>
        /\ summary # "raised"
        /\ FinalOf(2) = Complete(2)

\* C27: the write of the summary failed in the middle; the task returned,
\* the summary's path holds what it held before and the extraction's file
\* is intact.
C27_Witness ==
    /\ summary = "returned"
    /\ writer[1].pc = "raised"
    /\ writer[1].failedAt = "write"
    /\ FinalOf(1) = writer[1].before
    /\ FinalOf(2) = Complete(2)

====
